---- MODULE Spec2Model ----
(***************************************************************************)
(* Model of the asynchronous crawler of src/src/rag/data/crawl_to_md.py:   *)
(* main (the site scheduler), crawl_site_async (the per-site coordinator), *)
(* worker and process_page, together with the asyncio.Queue,               *)
(* asyncio.Semaphore and task cancellation they rely on.                   *)
(*                                                                         *)
(* asyncio runs one coroutine at a time and switches only where a          *)
(* coroutine really suspends.  In this program those places are            *)
(*   - queue.get() on an empty queue            (worker, line 155)         *)
(*   - session.get(...)                         (process_page, line 77)    *)
(*   - queue.join() with unfinished tasks       (crawl_site_async, 227)    *)
(*   - asyncio.gather(...)                      (lines 232 and 257).       *)
(* queue.put() on an unbounded queue, Semaphore.release() and              *)
(* queue.task_done() never suspend.  Each action below is therefore one    *)
(* run of a coroutine from one suspension point to the next.               *)
(*                                                                         *)
(* A URL is a sequence of tokens: the scheme, the network location, and    *)
(* then the characters of the rest of the URL, one per element.            *)
(***************************************************************************)
EXTENDS Integers, Sequences, FiniteSets, TLC

VARIABLES
    urlsToCrawl,  \* main: URLS_TO_CRAWL, one seed URL per site
    max_depth,    \* crawl_site_async: max_depth
    concurrency,  \* crawl_site_async: concurrency
    mainPc,       \* main: "gather" | "reported" | "aborted"
    coordPc,      \* per site: position of crawl_site_async
    queue,        \* per site: the asyncio.Queue
    semaphore,    \* per site: value of the asyncio.Semaphore
    visited_urls, \* per site: the shared set visited_urls
    workers,      \* per site: the worker tasks, in creation order
    fetchCount,   \* per site, per URL: number of GETs issued (history)
    failed,       \* per site: URLs of which a fetch has failed (history)
    lastKind,     \* per site: outcome of the last completed fetch (history)
    files,        \* per site: final URLs for which a file was written
    call,         \* a call of a pure function: its name and arguments
    ret           \* the value that call returned, once it has

vars == <<urlsToCrawl, max_depth, concurrency, mainPc, coordPc, queue,
          semaphore, visited_urls, workers, fetchCount, failed, lastKind,
          files, call, ret>>

---------------------------------------------------------------------------
(* Bounds of the model *)

MaxDepthBound == 2
MaxConcurrency == 2

\* main, line 246
MAX_DEPTH == 1

---------------------------------------------------------------------------
(* URLs and the web the crawler runs against *)

Scheme == "https://"
SeedHost == "s.com"
OtherHost == "o.com"

MkUrl(host, rest) == <<Scheme, host>> \o rest

SeedURL == MkUrl(SeedHost, <<"/">>)
UrlA == MkUrl(SeedHost, <<"/", "a">>)
UrlB == MkUrl(SeedHost, <<"/", "b">>)
UrlX == MkUrl(OtherHost, <<"/", "x">>)
UrlY == MkUrl(OtherHost, <<"/", "y">>)
UrlW == MkUrl(OtherHost, <<"/", "w">>)

URLs == {SeedURL, UrlA, UrlB, UrlX, UrlY, UrlW}

\* The seed URLs a crawl is started with.
Seeds == {SeedURL, UrlX}

\* The anchors (href values) of the page served at a final URL, in document
\* order.  An href is an absolute URL or a reference starting with "/".
PageHrefs(u) ==
    CASE u = SeedURL -> << <<"/", "a">>,
                           <<"/", "a">>,
                           <<"/", "b">>,
                           UrlX,
                           <<"/", "a", "#", "f">>,
                           <<"/", "d", ".", "p", "d", "f">>,
                           <<"/">> >>
      [] u = UrlA -> << <<"/">>, <<"/", "b">> >>
      [] u = UrlB -> << <<"/", "a">> >>
      [] u = UrlX -> << <<"/", "y">>, <<"/", "w">>, UrlA >>
      [] OTHER -> << >>

\* The URLs a GET of u may end at after following redirects (response.url):
\* the seed host may redirect its root to the other host, and /b to /a.
Redirects(u) ==
    CASE u = SeedURL -> {SeedURL, UrlX}
      [] u = UrlB -> {UrlB, UrlA}
      [] OTHER -> {u}

\* What one GET can produce.
FetchKinds == {"NetworkError", "HTTPError", "OK", "NoMain", "WriteError"}

---------------------------------------------------------------------------
(* Pure helpers of process_page *)

\* urlparse(url).netloc
netloc(url) == url[2]

\* "#" in absolute_link
HasFragmentMarker(url) == \E i \in 1..Len(url) : url[i] = "#"

\* str.endswith(suffix)
EndsWith(s, suffix) ==
    /\ Len(s) >= Len(suffix)
    /\ SubSeq(s, Len(s) - Len(suffix) + 1, Len(s)) = suffix

BinaryExtensions == { <<".", "p", "d", "f">>, <<".", "j", "p", "g">>,
                      <<".", "z", "i", "p">>, <<".", "p", "n", "g">> }

\* absolute_link.endswith((".pdf", ".jpg", ".zip", ".png"))
EndsWithBinary(url) == \E e \in BinaryExtensions : EndsWith(url, e)

\* urljoin(final_url, link) for an absolute link or a "/..." reference
urljoin(final_url, link) ==
    IF Len(link) > 0 /\ link[1] = Scheme
    THEN link
    ELSE <<final_url[1], final_url[2]>> \o link

\* the condition of lines 104-108
KeepLink(final_url, absolute_link) ==
    /\ netloc(absolute_link) = netloc(final_url)
    /\ ~HasFragmentMarker(absolute_link)
    /\ ~EndsWithBinary(absolute_link)

\* new_links of lines 97-110, for the anchors hrefs of the page
ExtractLinksOf(final_url, hrefs) ==
    LET abs == [i \in 1..Len(hrefs) |-> urljoin(final_url, hrefs[i])]
        Keep(l) == KeepLink(final_url, l)
    IN SelectSeq(abs, Keep)

\* new_links of lines 97-110, for the page served at final_url
ExtractLinks(final_url) == ExtractLinksOf(final_url, PageHrefs(final_url))

---------------------------------------------------------------------------
(* urlparse and url_to_filename *)

\* the first position of s that holds an element of stops, or Len(s) + 1
RECURSIVE FirstStop(_, _, _)
FirstStop(s, stops, i) ==
    IF i > Len(s) \/ s[i] \in stops THEN i ELSE FirstStop(s, stops, i + 1)

\* urlparse(url).path: what follows the network location, up to the query
\* or the fragment
PathOf(url) ==
    LET rest == SubSeq(url, 3, Len(url))
    IN SubSeq(rest, 1, FirstStop(rest, {"?", "#"}, 1) - 1)

\* str.lstrip("/")
RECURSIVE LStripSlash(_)
LStripSlash(s) ==
    IF s # << >> /\ Head(s) = "/" THEN LStripSlash(Tail(s)) ELSE s

\* the characters the pattern [^a-zA-Z0-9_.-] of line 40 leaves in place
AllowedChars ==
    {"a", "b", "c", "d", "e", "f", "g", "h", "i", "j", "k", "l", "m",
     "n", "o", "p", "q", "r", "s", "t", "u", "v", "w", "x", "y", "z",
     "A", "B", "C", "D", "E", "F", "G", "H", "I", "J", "K", "L", "M",
     "N", "O", "P", "Q", "R", "S", "T", "U", "V", "W", "X", "Y", "Z",
     "0", "1", "2", "3", "4", "5", "6", "7", "8", "9", "_", ".", "-"}

IndexName == <<"i", "n", "d", "e", "x">>

MdExt == <<".", "m", "d">>

\* variant: the characters are stripped before "/" is replaced
url_to_filename_StripFirst(url) ==
    LET path_str == LStripSlash(PathOf(url))
        Allowed(c) == c \in AllowedChars
        stripped == SelectSeq(path_str, Allowed)
        filename == IF path_str = << >> THEN IndexName ELSE stripped
    IN IF EndsWith(filename, MdExt) THEN filename ELSE filename \o MdExt

\* url_to_filename, lines 34-43
url_to_filename(url) ==
    LET path_str == LStripSlash(PathOf(url))
        replaced == IF path_str = << >>
                    THEN IndexName
                    ELSE [i \in 1..Len(path_str) |->
                            IF path_str[i] = "/" THEN "_" ELSE path_str[i]]
        Allowed(c) == c \in AllowedChars
        filename == SelectSeq(replaced, Allowed)
    IN IF EndsWith(filename, MdExt) THEN filename ELSE filename \o MdExt

---------------------------------------------------------------------------
(* asyncio.Queue: items, the count of unfinished tasks, the _finished     *)
(* event, and the coroutine blocked in join()                              *)

NewQueue == [items |-> << >>, unfinished |-> 0, finished |-> TRUE,
             joiner |-> "none"]

\* queue.put(item) on an unbounded queue: never suspends
Put(q, item) ==
    [q EXCEPT !.items = Append(@, item),
              !.unfinished = @ + 1,
              !.finished = FALSE]

\* variant: the item is read but left in the queue
GetNoPop(q) == q

\* queue.get() when an item is available
Get(q) == [q EXCEPT !.items = Tail(@)]

\* queue.task_done(): the event is set, and a coroutine waiting in join()
\* is woken, when the count reaches zero.  A woken waiter returns from
\* join() without looking at the count again.
TaskDone(q) ==
    LET n == q.unfinished - 1 IN
    [q EXCEPT !.unfinished = n,
              !.finished = IF n = 0 THEN TRUE ELSE @,
              !.joiner = IF n = 0 /\ @ = "waiting" THEN "woken" ELSE @]

\* variant: join returns without waiting
JoinNoWait(q) == [q EXCEPT !.joiner = "woken"]

\* queue.join(): waits only if there are unfinished tasks
Join(q) ==
    [q EXCEPT !.joiner = IF q.unfinished > 0 /\ ~q.finished
                         THEN "waiting" ELSE "woken"]

RECURSIVE PutAll(_, _)
PutAll(q, tasks) ==
    IF tasks = << >> THEN q ELSE PutAll(Put(q, Head(tasks)), Tail(tasks))

---------------------------------------------------------------------------
(* asyncio.Semaphore *)

\* variant: leaving the permit section does not give the permit back
ReleaseNothing(sem) == sem

Acquire(sem) == sem - 1
Release(sem) == sem + 1

---------------------------------------------------------------------------
(* process_page and the body of worker *)

NoTask == << >>

\* variant: the depth test is off by one
DepthExceededOffByOne(current_depth, maxd) == current_depth > maxd + 1

\* worker, line 157
DepthExceeded(current_depth, maxd) == current_depth > maxd

\* variant: the visited test is missing
AlreadyVisitedNever(url, visited) == FALSE

\* process_page, line 73
AlreadyVisited(url, visited) == url \in visited

\* variant: the status of the response is not checked
ProcessPageNoStatusCheck(url, visited, kind, final) ==
    IF kind = "NetworkError"
    THEN [visited |-> visited, links |-> << >>, wrote |-> FALSE]
    ELSE LET v == visited \cup {url, final} IN
         CASE kind = "WriteError" ->
                [visited |-> v, links |-> << >>, wrote |-> FALSE]
           [] kind = "NoMain" ->
                [visited |-> v, links |-> ExtractLinks(final), wrote |-> FALSE]
           [] OTHER ->
                [visited |-> v, links |-> ExtractLinks(final), wrote |-> TRUE]

\* variant: the URL is recorded after the status check
ProcessPageAddAfterStatus(url, visited, kind, final) ==
    IF kind \in {"NetworkError", "HTTPError"}
    THEN [visited |-> visited, links |-> << >>, wrote |-> FALSE]
    ELSE LET v == visited \cup {url, final} IN
         CASE kind = "WriteError" ->
                [visited |-> v, links |-> << >>, wrote |-> FALSE]
           [] kind = "NoMain" ->
                [visited |-> v, links |-> ExtractLinks(final), wrote |-> FALSE]
           [] OTHER ->
                [visited |-> v, links |-> ExtractLinks(final), wrote |-> TRUE]

\* variant: the URL is recorded after the file is written
ProcessPageAddAfterWrite(url, visited, kind, final) ==
    IF kind \in {"NetworkError", "HTTPError", "WriteError"}
    THEN [visited |-> visited, links |-> << >>, wrote |-> FALSE]
    ELSE LET v == visited \cup {url, final} IN
         CASE kind = "NoMain" ->
                [visited |-> v, links |-> ExtractLinks(final), wrote |-> FALSE]
           [] OTHER ->
                [visited |-> v, links |-> ExtractLinks(final), wrote |-> TRUE]

\* variant: a page without main content returns no links
ProcessPageNoMainNoLinks(url, visited, kind, final) ==
    IF kind = "NetworkError"
    THEN [visited |-> visited, links |-> << >>, wrote |-> FALSE]
    ELSE LET v == visited \cup {url, final} IN
         CASE kind \in {"HTTPError", "WriteError", "NoMain"} ->
                [visited |-> v, links |-> << >>, wrote |-> FALSE]
           [] OTHER ->
                [visited |-> v, links |-> ExtractLinks(final), wrote |-> TRUE]

\* process_page, lines 76-117, for a GET that ended with `kind` at `final`:
\* the new visited set, the links returned, whether a file was written
\* and whether the fetch failed.
ProcessPage(url, visited, kind, final) ==
    IF kind = "NetworkError"
    THEN [visited |-> visited, links |-> << >>, wrote |-> FALSE]
    ELSE LET v == visited \cup {url, final} IN
         CASE kind = "HTTPError" ->
                [visited |-> v, links |-> << >>, wrote |-> FALSE]
           [] kind = "WriteError" ->
                [visited |-> v, links |-> << >>, wrote |-> FALSE]
           [] kind = "NoMain" ->
                [visited |-> v, links |-> ExtractLinks(final), wrote |-> FALSE]
           [] OTHER ->
                [visited |-> v, links |-> ExtractLinks(final), wrote |-> TRUE]

\* variant: links are followed from a page at the depth limit too
NewTasksInclusive(links, current_depth, visited, maxd) ==
    IF current_depth <= maxd
    THEN LET Fresh(l) == l \notin visited
             fresh == SelectSeq(links, Fresh)
         IN [i \in 1..Len(fresh) |-> <<fresh[i], current_depth + 1>>]
    ELSE << >>

\* worker, lines 166-169: the tasks put for the links of a page
NewTasks(links, current_depth, visited, maxd) ==
    IF current_depth < maxd
    THEN LET Fresh(l) == l \notin visited
             fresh == SelectSeq(links, Fresh)
         IN [i \in 1..Len(fresh) |-> <<fresh[i], current_depth + 1>>]
    ELSE << >>

\* variant: task_done is called before the new tasks are put
FinishTaskDoneFirst(q, tasks) == PutAll(TaskDone(q), tasks)

\* variant: task_done is forgotten
FinishTaskNoDone(q, tasks) == PutAll(q, tasks)

\* worker, lines 166-171: all puts, then (after the permit is released)
\* task_done
FinishTask(q, tasks) == TaskDone(PutAll(q, tasks))

IdleWorker == [pc |-> "get", task |-> NoTask, permit |-> FALSE,
               cancel |-> FALSE]

---------------------------------------------------------------------------
(* Initial states: main has built crawl_tasks and is about to await        *)
(* asyncio.gather of them; no coordinator has run yet.                   *)

NoCall == [fn |-> "none"]

NoRet == [done |-> FALSE, value |-> << >>]

\* a returned value
Returned(v) == [done |-> TRUE, value |-> v]

Sites == DOMAIN urlsToCrawl

Workers(s) == DOMAIN workers[s]

InitSites(seeds) ==
    /\ urlsToCrawl = seeds
    /\ mainPc = "gather"
    /\ coordPc = [s \in DOMAIN seeds |-> "Init"]
    /\ queue = [s \in DOMAIN seeds |-> NewQueue]
    /\ semaphore = [s \in DOMAIN seeds |-> 0]
    /\ visited_urls = [s \in DOMAIN seeds |-> {}]
    /\ workers = [s \in DOMAIN seeds |-> << >>]
    /\ fetchCount = [s \in DOMAIN seeds |-> [u \in URLs |-> 0]]
    /\ failed = [s \in DOMAIN seeds |-> {}]
    /\ lastKind = [s \in DOMAIN seeds |-> "none"]
    /\ files = [s \in DOMAIN seeds |-> {}]
    /\ call = NoCall
    /\ ret = NoRet

\* One site, any depth limit and any pool size within the bounds.
Init ==
    /\ max_depth \in (0 - 1)..MaxDepthBound
    /\ concurrency \in 1..MaxConcurrency
    /\ \E seed \in Seeds : InitSites(<<seed>>)

---------------------------------------------------------------------------
(* crawl_site_async *)

\* lines 197-203: allocate queue, semaphore and visited set, create the
\* output directory.  mkdir may raise, which ends the coroutine.
CoordInit(s) ==
    /\ coordPc[s] = "Init"
    /\ \E mkdirOk \in BOOLEAN :
         coordPc' = [coordPc EXCEPT ![s] = IF mkdirOk THEN "Seeding"
                                                      ELSE "Failed"]
    /\ queue' = [queue EXCEPT ![s] = NewQueue]
    /\ semaphore' = [semaphore EXCEPT ![s] = concurrency]
    /\ visited_urls' = [visited_urls EXCEPT ![s] = {}]
    /\ UNCHANGED <<call, ret, urlsToCrawl, max_depth, concurrency, mainPc, workers,
                   fetchCount, failed, lastKind, files>>

\* variant: the seed URL is marked visited when it is put
CoordSeedPreMark(s) ==
    /\ coordPc[s] = "Seeding"
    /\ queue' = [queue EXCEPT ![s] = Put(@, <<urlsToCrawl[s], 0>>)]
    /\ visited_urls' = [visited_urls EXCEPT ![s] = {urlsToCrawl[s]}]
    /\ coordPc' = [coordPc EXCEPT ![s] = "Spawning"]
    /\ UNCHANGED <<call, ret, urlsToCrawl, max_depth, concurrency, mainPc,
                   semaphore, workers, fetchCount, failed, lastKind, files>>

\* line 209
CoordSeed(s) ==
    /\ coordPc[s] = "Seeding"
    /\ queue' = [queue EXCEPT ![s] = Put(@, <<urlsToCrawl[s], 0>>)]
    /\ coordPc' = [coordPc EXCEPT ![s] = "Spawning"]
    /\ UNCHANGED <<call, ret, urlsToCrawl, max_depth, concurrency, mainPc, semaphore,
                   visited_urls, workers, fetchCount, failed, lastKind,
                   files>>

\* lines 211-227: create the worker tasks, then wait in queue.join()
CoordSpawn(s) ==
    /\ coordPc[s] = "Spawning"
    /\ workers' = [workers EXCEPT ![s] = [i \in 1..concurrency |-> IdleWorker]]
    /\ queue' = [queue EXCEPT ![s] = Join(@)]
    /\ coordPc' = [coordPc EXCEPT ![s] = "Running"]
    /\ UNCHANGED <<call, ret, urlsToCrawl, max_depth, concurrency, mainPc, semaphore,
                   visited_urls, fetchCount, failed, lastKind, files>>

\* Task.cancel(): the task gets CancelledError where it is suspended
CancelTask(wk) ==
    IF wk.pc = "cancelled" THEN wk ELSE [wk EXCEPT !.cancel = TRUE]

\* variant: the workers are cancelled without waiting for join()
CoordJoinReturnNoWait(s) ==
    /\ coordPc[s] = "Running"
    /\ queue' = [queue EXCEPT ![s].joiner = "none"]
    /\ workers' = [workers EXCEPT
                     ![s] = [w \in Workers(s) |-> CancelTask(workers[s][w])]]
    /\ coordPc' = [coordPc EXCEPT ![s] = "Draining"]
    /\ UNCHANGED <<call, ret, urlsToCrawl, max_depth, concurrency, mainPc,
                   semaphore, visited_urls, fetchCount, failed, lastKind,
                   files>>

\* lines 227-232: join() has returned; cancel every worker, then wait for
\* them in gather
CoordJoinReturn(s) ==
    /\ coordPc[s] = "Running"
    /\ queue[s].joiner = "woken"
    /\ queue' = [queue EXCEPT ![s].joiner = "none"]
    /\ workers' = [workers EXCEPT
                     ![s] = [w \in Workers(s) |-> CancelTask(workers[s][w])]]
    /\ coordPc' = [coordPc EXCEPT ![s] = "Draining"]
    /\ UNCHANGED <<call, ret, urlsToCrawl, max_depth, concurrency, mainPc, semaphore,
                   visited_urls, fetchCount, failed, lastKind, files>>

\* variant: the coordinator goes on when the first worker has ended
CoordDoneEarly(s) ==
    /\ coordPc[s] = "Draining"
    /\ \E w \in Workers(s) : workers[s][w].pc = "cancelled"
    /\ coordPc' = [coordPc EXCEPT ![s] = "Done"]
    /\ UNCHANGED <<call, ret, urlsToCrawl, max_depth, concurrency, mainPc, queue,
                   semaphore, visited_urls, workers, fetchCount, failed,
                   lastKind, files>>

\* lines 232-235: gather returns when every worker has ended
CoordDone(s) ==
    /\ coordPc[s] = "Draining"
    /\ \A w \in Workers(s) : workers[s][w].pc = "cancelled"
    /\ coordPc' = [coordPc EXCEPT ![s] = "Done"]
    /\ UNCHANGED <<call, ret, urlsToCrawl, max_depth, concurrency, mainPc, queue,
                   semaphore, visited_urls, workers, fetchCount, failed,
                   lastKind, files>>

---------------------------------------------------------------------------
(* worker *)

\* lines 155-164: queue.get() returns a task; the worker runs until it
\* suspends again: in queue.get() (task discarded, or its URL already
\* visited), in the semaphore (no permit left) or in session.get().
\* The pool has exactly `concurrency` workers (line 224) and a worker
\* holds at most one permit, so the semaphore is never found at 0 here.
Dequeue(s, w) ==
    LET wk == workers[s][w]
        task == Head(queue[s].items)
        current_url == task[1]
        current_depth == task[2]
        q == Get(queue[s])
    IN
    /\ wk.pc = "get"
    /\ ~wk.cancel
    /\ queue[s].items # << >>
    /\ IF DepthExceeded(current_depth, max_depth)
       THEN /\ queue' = [queue EXCEPT ![s] = TaskDone(q)]
            /\ UNCHANGED <<semaphore, workers, fetchCount>>
       ELSE IF semaphore[s] = 0
       THEN /\ queue' = [queue EXCEPT ![s] = q]
            /\ workers' = [workers EXCEPT ![s][w] =
                             [wk EXCEPT !.pc = "acquire", !.task = task]]
            /\ UNCHANGED <<semaphore, fetchCount>>
       ELSE IF AlreadyVisited(current_url, visited_urls[s])
       THEN /\ queue' = [queue EXCEPT ![s] = FinishTask(q, << >>)]
            /\ semaphore' = [semaphore EXCEPT ![s] = Release(Acquire(@))]
            /\ UNCHANGED <<workers, fetchCount>>
       ELSE /\ queue' = [queue EXCEPT ![s] = q]
            /\ semaphore' = [semaphore EXCEPT ![s] = Acquire(@)]
            /\ workers' = [workers EXCEPT ![s][w] =
                             [wk EXCEPT !.pc = "fetch", !.task = task,
                                        !.permit = TRUE]]
            /\ fetchCount' = [fetchCount EXCEPT ![s][current_url] = @ + 1]
    /\ UNCHANGED <<call, ret, urlsToCrawl, max_depth, concurrency, mainPc, coordPc,
                   visited_urls, failed, lastKind, files>>

\* lines 77-117 and 166-171: the GET ends (with a response or with an
\* exception); the worker records the URL, writes the file, puts the new
\* tasks, releases the permit, marks the task done and is back at
\* queue.get().
FetchComplete(s, w) ==
    LET wk == workers[s][w]
        current_url == wk.task[1]
        current_depth == wk.task[2]
    IN
    /\ wk.pc = "fetch"
    /\ ~wk.cancel
    /\ \E kind \in FetchKinds, final \in Redirects(current_url) :
         LET r == ProcessPage(current_url, visited_urls[s], kind, final)
             tasks == NewTasks(r.links, current_depth, r.visited, max_depth)
         IN
         /\ visited_urls' = [visited_urls EXCEPT ![s] = r.visited]
         /\ files' = [files EXCEPT ![s] = IF r.wrote THEN @ \cup {final}
                                                       ELSE @]
         /\ failed' = [failed EXCEPT ![s] =
                         IF kind \in {"NetworkError", "HTTPError"}
                         THEN @ \cup {current_url} ELSE @]
         /\ lastKind' = [lastKind EXCEPT ![s] = kind]
         /\ queue' = [queue EXCEPT ![s] = FinishTask(@, tasks)]
    /\ semaphore' = [semaphore EXCEPT ![s] = Release(@)]
    /\ workers' = [workers EXCEPT ![s][w] = IdleWorker]
    /\ UNCHANGED <<call, ret, urlsToCrawl, max_depth, concurrency, mainPc, coordPc,
                   fetchCount>>

\* CancelledError is raised in a cancelled worker where it is suspended.
\* It is not an Exception, so process_page does not catch it; leaving
\* `async with semaphore` releases a permit that is held.  The worker ends
\* without task_done.
WorkerCancelled(s, w) ==
    LET wk == workers[s][w] IN
    /\ wk.cancel
    /\ wk.pc # "cancelled"
    /\ semaphore' = [semaphore EXCEPT ![s] = IF wk.permit THEN Release(@)
                                                           ELSE @]
    /\ workers' = [workers EXCEPT ![s][w] =
                     [pc |-> "cancelled", task |-> NoTask, permit |-> FALSE,
                      cancel |-> FALSE]]
    /\ UNCHANGED <<call, ret, urlsToCrawl, max_depth, concurrency, mainPc, coordPc,
                   queue, visited_urls, fetchCount, failed, lastKind, files>>

---------------------------------------------------------------------------
(* main *)

\* lines 257-260: every coordinator returned; report the elapsed time
MainReturn ==
    /\ mainPc = "gather"
    /\ \A s \in Sites : coordPc[s] = "Done"
    /\ mainPc' = "reported"
    /\ UNCHANGED <<call, ret, urlsToCrawl, max_depth, concurrency, coordPc, queue,
                   semaphore, visited_urls, workers, fetchCount, failed,
                   lastKind, files>>

\* line 257: gather (without return_exceptions) passes the first exception
\* of a coordinator on to main, which ends with it; asyncio.run (line 264)
\* then cancels every task that is still running.  The event loop runs
\* tasks in the order they became ready, so every coordinator has run up
\* to its first suspension before main is resumed.
MainRaise ==
    /\ mainPc = "gather"
    /\ \E s \in Sites : coordPc[s] = "Failed"
    /\ \A s \in Sites : coordPc[s] \notin {"Init", "Seeding", "Spawning"}
    /\ mainPc' = "aborted"
    /\ coordPc' = [s \in Sites |->
                     IF coordPc[s] \in {"Running", "Draining"}
                     THEN "Cancelled" ELSE coordPc[s]]
    /\ queue' = [s \in Sites |-> [queue[s] EXCEPT !.joiner = "none"]]
    /\ workers' = [s \in Sites |->
                     [w \in Workers(s) |-> CancelTask(workers[s][w])]]
    /\ UNCHANGED <<call, ret, urlsToCrawl, max_depth, concurrency, semaphore,
                   visited_urls, fetchCount, failed, lastKind, files>>

---------------------------------------------------------------------------

Next ==
    \/ \E s \in Sites : CoordInit(s)
    \/ \E s \in Sites : CoordSeed(s)
    \/ \E s \in Sites : CoordSpawn(s)
    \/ \E s \in Sites : CoordJoinReturn(s)
    \/ \E s \in Sites : CoordDone(s)
    \/ \E s \in Sites : \E w \in Workers(s) : Dequeue(s, w)
    \/ \E s \in Sites : \E w \in Workers(s) : FetchComplete(s, w)
    \/ \E s \in Sites : \E w \in Workers(s) : WorkerCancelled(s, w)
    \/ MainReturn
    \/ MainRaise

Spec == Init /\ [][Next]_vars

\* Fair scheduling: the event loop runs every coroutine that is ready, and
\* every GET ends (the client has a timeout, line 77).
Fairness ==
    /\ WF_vars(\E s \in Sites : CoordInit(s) \/ CoordSeed(s) \/ CoordSpawn(s)
                                  \/ CoordJoinReturn(s) \/ CoordDone(s))
    /\ WF_vars(\E s \in Sites : \E w \in Workers(s) :
                  Dequeue(s, w) \/ WorkerCancelled(s, w))
    /\ WF_vars(\E s \in Sites : \E w \in Workers(s) : FetchComplete(s, w))

FairSpec == Init /\ [][Next]_vars /\ Fairness

\* main with two sites: the seeds of two hosts, main's MAX_DEPTH, and a
\* pool of one worker per site.
InitMain ==
    /\ max_depth = MAX_DEPTH
    /\ concurrency = 1
    /\ InitSites(<<SeedURL, UrlX>>)

SpecMain == InitMain /\ [][Next]_vars

---------------------------------------------------------------------------
(* The link filter of process_page on its own: any page of up to          *)
(* MaxAnchors anchors, served on either host.                              *)

MaxAnchors == 4

SameHost == "same.com"

ForeignHost == "other.com"

LinkA == MkUrl(SameHost, <<"/", "a">>)
LinkB == MkUrl(ForeignHost, <<"/", "b">>)
LinkFrag == MkUrl(SameHost, <<"/", "c", "#", "f", "r", "a", "g">>)
LinkPdf == MkUrl(SameHost, <<"/", "d", ".", "p", "d", "f">>)
LinkPdfQuery == MkUrl(SameHost, <<"/", "d", ".", "p", "d", "f", "?", "v">>)
LinkQueryPdf == MkUrl(SameHost, <<"/", "a", "?", "f", ".", "p", "d", "f">>)

AnchorLinks == {LinkA, LinkB, LinkFrag, LinkPdf, LinkPdfQuery, LinkQueryPdf}

PageURLs == {MkUrl(SameHost, <<"/">>), MkUrl(ForeignHost, <<"/">>)}

\* the crawler's own state when only a pure function is exercised
NoCrawl ==
    /\ max_depth = 0
    /\ concurrency = 1
    /\ urlsToCrawl = << >>
    /\ mainPc = "gather"
    /\ coordPc = << >>
    /\ queue = << >>
    /\ semaphore = << >>
    /\ visited_urls = << >>
    /\ workers = << >>
    /\ fetchCount = << >>
    /\ failed = << >>
    /\ lastKind = << >>
    /\ files = << >>

crawlVars == <<urlsToCrawl, max_depth, concurrency, mainPc, coordPc, queue,
               semaphore, visited_urls, workers, fetchCount, failed,
               lastKind, files>>

InitLinks ==
    /\ NoCrawl
    /\ call \in [fn : {"extract_links"},
                 final_url : PageURLs,
                 hrefs : UNION {[1..n -> AnchorLinks] : n \in 0..MaxAnchors}]
    /\ ret = NoRet

\* lines 97-110 applied to the page of the call
ApplyExtractLinks ==
    /\ call.fn = "extract_links"
    /\ ~ret.done
    /\ ret' = Returned(ExtractLinksOf(call.final_url, call.hrefs))
    /\ UNCHANGED <<call, crawlVars>>

NextLinks == ApplyExtractLinks

SpecLinks == InitLinks /\ [][NextLinks]_vars

---------------------------------------------------------------------------
(* url_to_filename on its own: any URL whose part after the network        *)
(* location has up to MaxUrlChars characters.                              *)

MaxUrlChars == 4

UrlChars == {"/", "a", "_", ".", "m", "d", "?", "#", "%"}

InitFilename ==
    /\ NoCrawl
    /\ call \in [fn : {"url_to_filename"},
                 url : {MkUrl(h, r) :
                          h \in {SameHost, ForeignHost},
                          r \in UNION {[1..n -> UrlChars] :
                                          n \in 0..MaxUrlChars}}]
    /\ ret = NoRet

\* lines 34-43 applied to the URL of the call
ApplyUrlToFilename ==
    /\ call.fn = "url_to_filename"
    /\ ~ret.done
    /\ ret' = Returned(url_to_filename(call.url))
    /\ UNCHANGED <<call, crawlVars>>

NextFilename == ApplyUrlToFilename

SpecFilename == InitFilename /\ [][NextFilename]_vars

---------------------------------------------------------------------------
(* Properties *)

Holding(s) == {w \in Workers(s) : workers[s][w].permit}

InFlight(s) == {w \in Workers(s) : workers[s][w].task # NoTask}

\* C1: no fetch is ever issued for a task whose depth exceeds max_depth; a
\* dequeued task that is too deep is marked done and dropped, with no fetch,
\* no permit taken and nothing put on the queue.
C1_DepthBound ==
    [][\A s \in Sites :
         /\ \A w \in DOMAIN workers'[s] :
              workers'[s][w].task # NoTask
                  => workers'[s][w].task[2] <= max_depth
         /\ ( /\ queue[s].items # << >>
              /\ Head(queue[s].items)[2] > max_depth
              /\ Len(queue'[s].items) < Len(queue[s].items) )
            => /\ queue'[s].items = Tail(queue[s].items)
               /\ queue'[s].unfinished = queue[s].unfinished - 1
               /\ fetchCount' = fetchCount
               /\ semaphore' = semaphore
               /\ workers' = workers
               /\ visited_urls' = visited_urls]_vars

\* a crawl with max_depth < 0 has dropped its seed task
C1_Witness ==
    \E s \in Sites :
        /\ max_depth < 0
        /\ coordPc[s] = "Running"
        /\ queue[s].items = << >>
        /\ queue[s].unfinished = 0
        /\ \A u \in URLs : fetchCount[s][u] = 0

\* C2: with fair scheduling and fetches that end, a crawl whose directory
\* was created terminates: join returns, every worker is cancelled and
\* crawl_site_async reaches Done.
C2_Terminates ==
    \A s \in {1} :
        (coordPc[s] = "Seeding")
            ~> ( /\ coordPc[s] = "Done"
                 /\ queue[s].unfinished = 0
                 /\ \A w \in Workers(s) : workers[s][w].pc = "cancelled" )

\* a crawl to the deepest level has ended, with a file of a linked page
C2_Witness ==
    \E s \in Sites :
        /\ coordPc[s] = "Done"
        /\ max_depth = MaxDepthBound
        /\ \E u \in URLs : u \in files[s] /\ u # urlsToCrawl[s]

\* C3: when join() returns the queue is empty, no worker holds a task it
\* has not marked done, and nothing is left to put.
C3_JoinNotPremature ==
    \A s \in Sites :
        (queue[s].joiner = "woken" \/ coordPc[s] \in {"Draining", "Done"})
            => /\ queue[s].items = << >>
               /\ queue[s].unfinished = 0
               /\ InFlight(s) = {}

\* join() returned after pages with links have been crawled
C3_Witness ==
    \E s \in Sites :
        /\ queue[s].joiner = "woken"
        /\ fetchCount[s][UrlA] > 0
        /\ fetchCount[s][UrlB] > 0

\* C4 as stated: each URL is fetched at most once.
C4_AtMostOneFetch ==
    \A s \in Sites : \A u \in URLs : fetchCount[s][u] <= 1

\* C4 as amended: a fetch is issued only for a URL that is not in the
\* visited set at that moment.
C4_NoFetchOfVisited ==
    [][\A s \in Sites : \A u \in URLs :
         fetchCount'[s][u] > fetchCount[s][u] => u \notin visited_urls[s]]_vars

\* the seed page put UrlA twice; it was fetched once and skipped once
C4_Witness ==
    \E s \in Sites :
        /\ max_depth >= 1
        /\ urlsToCrawl[s] = SeedURL
        /\ SeedURL \in files[s]
        /\ fetchCount[s][SeedURL] = 1
        /\ fetchCount[s][UrlA] = 1
        /\ queue[s].unfinished = 0

\* C5: every task in the queue and every fetched URL has the host of the
\* seed URL.
C5_StaysOnSeedDomain ==
    \A s \in Sites :
        /\ \A i \in 1..Len(queue[s].items) :
             netloc(queue[s].items[i][1]) = netloc(urlsToCrawl[s])
        /\ \A u \in URLs :
             fetchCount[s][u] > 0 => netloc(u) = netloc(urlsToCrawl[s])

\* C6: once a fetch of a URL has failed, no later fetch of it is issued.
C6_NoRetry ==
    [][\A s \in Sites : \A u \in URLs :
         fetchCount'[s][u] > fetchCount[s][u] => u \notin failed[s]]_vars

\* C7: permits held plus permits available is the configured concurrency,
\* at most that many workers hold one, and a worker with a fetch in flight
\* holds one.
C7_PermitAccounting ==
    \A s \in Sites :
        coordPc[s] # "Init"
            => /\ semaphore[s] >= 0
               /\ semaphore[s] + Cardinality(Holding(s)) = concurrency
               /\ Cardinality(Holding(s)) <= concurrency
               /\ \A w \in Workers(s) :
                    workers[s][w].pc = "fetch" => workers[s][w].permit

\* every permit is held
C7_Witness ==
    \E s \in Sites :
        /\ concurrency >= 2
        /\ semaphore[s] = 0
        /\ Cardinality(Holding(s)) = concurrency

\* C8: whatever the outcome of a fetch, the worker releases its permit,
\* marks the task done once and is back at the dequeue; after a failed
\* fetch it puts nothing; the coordinator and main are not affected.
C8_FailureContained ==
    [][\A s \in Sites : \A w \in Workers(s) :
         ( /\ workers[s][w].pc = "fetch"
           /\ ~workers[s][w].cancel
           /\ w \in DOMAIN workers'[s]
           /\ workers'[s][w] # workers[s][w]
           /\ ~workers'[s][w].cancel )
         => /\ workers'[s][w] = IdleWorker
            /\ semaphore'[s] = semaphore[s] + 1
            /\ queue'[s].unfinished - Len(queue'[s].items)
                 = queue[s].unfinished - Len(queue[s].items) - 1
            /\ lastKind'[s] \in {"NetworkError", "HTTPError", "WriteError"}
                 => queue'[s].items = queue[s].items
            /\ coordPc' = coordPc
            /\ mainPc' = mainPc]_vars

\* fetches have failed, the last one raised while writing, and the crawl
\* went on to its end
C8_Witness ==
    \E s \in Sites :
        /\ coordPc[s] = "Done"
        /\ failed[s] # {}
        /\ lastKind[s] = "WriteError"
        /\ files[s] # {}

\* C9: when the coordinator has cancelled and awaited its workers, every
\* worker has ended and every permit is available.
C9_NoPermitLeak ==
    \A s \in Sites :
        coordPc[s] = "Done"
            => /\ Len(workers[s]) = concurrency
               /\ \A w \in Workers(s) : workers[s][w].pc = "cancelled"
               /\ semaphore[s] = concurrency

\* a pool of two workers that fetched pages has been cancelled
C9_Witness ==
    \E s \in Sites :
        /\ coordPc[s] = "Done"
        /\ concurrency >= 2
        /\ fetchCount[s][UrlA] >= 2

\* C10: a coordinator whose directory was created is never aborted, and
\* main stops waiting only when every coordinator has ended, reporting the
\* elapsed time unless none could run.
C10_SiteFailuresIsolated ==
    /\ \A s \in Sites : coordPc[s] # "Cancelled"
    /\ mainPc # "gather" => \A s \in Sites : coordPc[s] \in {"Done", "Failed"}
    /\ (\E s \in Sites : coordPc[s] = "Done") /\ mainPc # "gather"
          => mainPc = "reported"

\* the number of elements of s that equal c
RECURSIVE CountOf(_, _)
CountOf(s, c) ==
    IF s = << >> THEN 0
    ELSE (IF Head(s) = c THEN 1 ELSE 0) + CountOf(Tail(s), c)

\* C11: the links kept are, in document order and with duplicates, exactly
\* the resolved anchors whose host is the host of the final URL, that have
\* no "#" and whose path does not end in .pdf, .jpg, .zip or .png.
C11_LinkFilterOnPath ==
    (call.fn = "extract_links" /\ ret.done)
        => LET abs == [i \in 1..Len(call.hrefs) |->
                          urljoin(call.final_url, call.hrefs[i])]
               KeptByRule(l) ==
                   /\ netloc(l) = netloc(call.final_url)
                   /\ ~HasFragmentMarker(l)
                   /\ ~EndsWithBinary(PathOf(l))
           IN ret.value = SelectSeq(abs, KeptByRule)

\* C12: the name depends on the path only, has only characters of
\* [A-Za-z0-9_.-], is not empty and ends with ".md"; an empty path gives
\* "index.md"; every "/" inside the path becomes "_".
C12_FilenameSafe ==
    (call.fn = "url_to_filename" /\ ret.done)
        => LET path == PathOf(call.url)
               stripped == LStripSlash(path)
               name == ret.value
           IN /\ name = url_to_filename(MkUrl(SeedHost, path))
              /\ \A i \in 1..Len(name) : name[i] \in AllowedChars
              /\ Len(name) >= 3
              /\ SubSeq(name, Len(name) - 2, Len(name)) = <<".", "m", "d">>
              /\ stripped = << >>
                   => name = <<"i", "n", "d", "e", "x", ".", "m", "d">>
              /\ stripped # << >>
                   => CountOf(name, "_")
                        = CountOf(stripped, "/") + CountOf(stripped, "_")

\* a name has been computed for a foreign-host URL with an inner separator
\* and a character that is stripped
C12_Witness ==
    /\ call.fn = "url_to_filename"
    /\ call.url = MkUrl(ForeignHost, <<"/", "a", "/", "%">>)
    /\ ret.done
    /\ ret.value = <<"a", "_", ".", "m", "d">>

---------------------------------------------------------------------------
(* Steps of a worker, as seen in a pair of states *)

\* worker w of site s ends a fetch in this step (it was not cancelled)
FetchEnds(s, w) ==
    /\ workers[s][w].pc = "fetch"
    /\ ~workers[s][w].cancel
    /\ w \in DOMAIN workers'[s]
    /\ workers'[s][w].pc # "fetch"
    /\ ~workers'[s][w].cancel

\* the tasks put on the queue of site s in this step
Added(s) ==
    SubSeq(queue'[s].items, Len(queue[s].items) + 1, Len(queue'[s].items))

\* the links the page at final keeps, as tasks one level below depth k
LinkTasks(final, k) ==
    LET links == ExtractLinks(final)
    IN [i \in 1..Len(links) |-> <<links[i], k + 1>>]

\* the fetch of the seed URL of site s ended with a non-2xx status
SeedGotHTTPError(s) ==
    /\ s \in Sites
    /\ urlsToCrawl[s] \in failed[s]
    /\ lastKind[s] = "HTTPError"

\* C13: when the fetch of the seed returns a non-2xx status, no file is
\* written, no task is put, the seed is in the visited set, nothing fails,
\* and the crawl goes on to Done.
C13_SeedHTTPError ==
    \A s \in {1} :
        /\ [](SeedGotHTTPError(s)
                => /\ files[s] = {}
                   /\ queue[s].items = << >>
                   /\ queue[s].unfinished = 0
                   /\ \A u \in URLs \ {urlsToCrawl[s]} : fetchCount[s][u] = 0
                   /\ urlsToCrawl[s] \in visited_urls[s]
                   /\ coordPc[s] \in {"Running", "Draining", "Done"}
                   /\ mainPc # "aborted")
        /\ SeedGotHTTPError(s)
             ~> (coordPc[s] = "Done" /\ files[s] = {})

\* the crawl of a seed that returned a non-2xx status has ended
C13_Witness ==
    /\ SeedGotHTTPError(1)
    /\ coordPc[1] = "Done"
    /\ files[1] = {}
    /\ visited_urls[1] = {SeedURL}

\* C14 as stated: a 2xx page without main content is in the visited set
\* with its final URL, no file is written for it, and below max_depth every
\* link it keeps is put at depth + 1.
C14_NoMainAllLinks ==
    [][\A s \in Sites : \A w \in Workers(s) :
         (FetchEnds(s, w) /\ lastKind'[s] = "NoMain")
         => LET url == workers[s][w].task[1]
                k == workers[s][w].task[2]
            IN /\ url \in visited_urls'[s]
               /\ files'[s] = files[s]
               /\ \E final \in Redirects(url) :
                    /\ final \in visited_urls'[s]
                    /\ k < max_depth => Added(s) = LinkTasks(final, k)]_vars

\* C14 as amended: ... every link it keeps that is not in the visited set
\* is put at depth + 1.
C14_NoMainFreshLinks ==
    [][\A s \in Sites : \A w \in Workers(s) :
         (FetchEnds(s, w) /\ lastKind'[s] = "NoMain")
         => LET url == workers[s][w].task[1]
                k == workers[s][w].task[2]
                Fresh(t) == t[1] \notin visited_urls'[s]
            IN /\ url \in visited_urls'[s]
               /\ files'[s] = files[s]
               /\ \E final \in Redirects(url) :
                    /\ final \in visited_urls'[s]
                    /\ k < max_depth
                         => Added(s) = SelectSeq(LinkTasks(final, k), Fresh)]_vars

\* the seed page had no main content: no file, and its three links that
\* are not visited are on the queue
C14_Witness ==
    \E s \in Sites :
        /\ lastKind[s] = "NoMain"
        /\ files[s] = {}
        /\ visited_urls[s] = {SeedURL}
        /\ queue[s].items = << <<UrlA, 1>>, <<UrlA, 1>>, <<UrlB, 1>> >>

\* C15: the tasks put after a page are one (L, k+1) per kept link L that is
\* not in the visited set, in document order, and only when k < max_depth;
\* every task has a depth in 0..max_depth (for a max_depth that is not
\* negative); a seed at max_depth 1 with two
\* same-domain links and one off-domain link puts two tasks of depth 1.
C15_EnqueueRule ==
    [][\A s \in Sites :
         /\ \A w \in Workers(s) :
              FetchEnds(s, w)
              => LET url == workers[s][w].task[1]
                     k == workers[s][w].task[2]
                     Fresh(t) == t[1] \notin visited_urls'[s]
                 IN /\ SubSeq(queue'[s].items, 1, Len(queue[s].items))
                         = queue[s].items
                    /\ IF lastKind'[s] \in {"OK", "NoMain"} /\ k < max_depth
                       THEN \E final \in Redirects(url) :
                               /\ final \in visited_urls'[s]
                               /\ Added(s) = SelectSeq(LinkTasks(final, k),
                                                       Fresh)
                       ELSE Added(s) = << >>
                    /\ (url = UrlX /\ k = 0 /\ max_depth = 1
                            /\ lastKind'[s] \in {"OK", "NoMain"})
                         => Added(s) = << <<UrlY, 1>>, <<UrlW, 1>> >>
         /\ max_depth >= 0
              => \A i \in 1..Len(queue'[s].items) :
                   queue'[s].items[i][2] \in 0..max_depth]_vars

\* the page of the seed https://o.com/x, crawled with max_depth 1, has put
\* its two same-domain links
C15_Witness ==
    \E s \in Sites :
        /\ urlsToCrawl[s] = UrlX
        /\ max_depth = 1
        /\ UrlX \in files[s]
        /\ queue[s].items = << <<UrlY, 1>>, <<UrlW, 1>> >>

C17_VisitedDiscipline ==
    [][\A s \in Sites :
         /\ visited_urls[s] \subseteq visited_urls'[s]
         /\ coordPc'[s] \in {"Init", "Seeding", "Spawning"}
              => visited_urls'[s] = {}
         /\ visited_urls'[s] # visited_urls[s]
              => \E w \in Workers(s) :
                   /\ FetchEnds(s, w)
                   /\ fetchCount[s][workers[s][w].task[1]] > 0
                   /\ visited_urls'[s] \ visited_urls[s]
                        \subseteq {workers[s][w].task[1]}
                                    \cup Redirects(workers[s][w].task[1])]_vars

\* the visited set holds requested URLs and a URL that a redirect led to
\* and that was never requested, but not a URL whose fetch failed in the
\* network
C17_Witness ==
    \E s \in Sites :
        /\ visited_urls[s] = {SeedURL, UrlX, UrlY}
        /\ fetchCount[s][UrlX] = 0
        /\ fetchCount[s][UrlW] = 1
        /\ queue[s].unfinished = 0

\* C18: the coordinator goes Init, Seeding, (seed put) Spawning, Running,
\* Draining, Done, in this order; the seed task is on the queue when the
\* workers are created; workers are cancelled only when join() has
\* returned; Done is reached only when every worker has ended.
C18_PhaseOrder ==
    [][\A s \in Sites :
         /\ coordPc'[s] # coordPc[s]
              => <<coordPc[s], coordPc'[s]>>
                    \in { <<"Init", "Seeding">>, <<"Init", "Failed">>,
                          <<"Seeding", "Spawning">>,
                          <<"Spawning", "Running">>,
                          <<"Running", "Draining">>,
                          <<"Draining", "Done">> }
         /\ (workers[s] = << >> /\ workers'[s] # << >>)
              => /\ coordPc[s] = "Spawning"
                 /\ queue[s].items = << <<urlsToCrawl[s], 0>> >>
         /\ coordPc'[s] = "Spawning" /\ coordPc[s] = "Seeding"
              => queue'[s].items = << <<urlsToCrawl[s], 0>> >>
         /\ (coordPc[s] = "Running" /\ coordPc'[s] = "Draining")
              => queue[s].joiner = "woken"
         /\ \A w \in DOMAIN workers'[s] :
              (workers'[s][w].cancel \/ workers'[s][w].pc = "cancelled")
                  => coordPc'[s] \in {"Draining", "Done"}
         /\ (coordPc[s] = "Draining" /\ coordPc'[s] = "Done")
              => \A w \in Workers(s) : workers[s][w].pc = "cancelled"]_vars

\* a coordinator that created its workers and crawled pages is Done
C18_Witness ==
    \E s \in Sites :
        /\ coordPc[s] = "Done"
        /\ Len(workers[s]) = concurrency
        /\ UrlB \in files[s]

\* C19: a task leaves the queue once, from its head, is held unchanged by
\* the worker that took it, and is marked done once: the unfinished count
\* is the number of tasks queued plus the number held, and never negative;
\* with fair scheduling a queue that holds tasks is emptied.
C19_ConsumedOnce ==
    /\ [][\A s \in Sites :
            /\ queue'[s].unfinished
                 = Len(queue'[s].items) + Cardinality(InFlight(s)')
            /\ queue'[s].unfinished >= 0
            /\ Len(queue'[s].items) < Len(queue[s].items)
                 => /\ queue'[s].items = Tail(queue[s].items)
                    /\ Cardinality({w \in Workers(s) :
                          workers'[s][w] # workers[s][w]}) <= 1
                    /\ \A w \in Workers(s) :
                         workers'[s][w] # workers[s][w]
                           => /\ workers[s][w].task = NoTask
                              /\ workers'[s][w].task = Head(queue[s].items)
                    /\ queue'[s].unfinished
                         = queue[s].unfinished
                             - (IF workers' = workers THEN 1 ELSE 0)
            /\ Len(queue'[s].items) >= Len(queue[s].items)
                 => SubSeq(queue'[s].items, 1, Len(queue[s].items))
                       = queue[s].items
            /\ \A w \in Workers(s) :
                 /\ (workers[s][w].task # NoTask
                        /\ workers'[s][w].task # NoTask)
                      => workers'[s][w].task = workers[s][w].task
                 /\ FetchEnds(s, w)
                      => queue'[s].unfinished - Len(queue'[s].items)
                           = queue[s].unfinished - Len(queue[s].items) - 1
         ]_vars
    /\ \A s \in {1} :
         (s \in Sites /\ queue[s].items # << >>)
             ~> (s \in Sites /\ queue[s].items = << >>)

\* tasks of both kinds have been consumed: some were fetched, one was
\* dropped because its URL was visited, and none is left
C19_Witness ==
    \E s \in Sites :
        /\ coordPc[s] = "Draining"
        /\ max_depth = 1
        /\ fetchCount[s][SeedURL] = 1
        /\ fetchCount[s][UrlA] = 1
        /\ fetchCount[s][UrlB] = 1
        /\ queue[s].unfinished = 0

\* C20: when the coordinator cancels the workers, every worker is
\* suspended in queue.get(): none holds a task or a permit, and every
\* permit is available.
C20_CancelAtDequeue ==
    [][\A s \in Sites :
         /\ (coordPc[s] = "Running" /\ coordPc'[s] = "Draining")
              => /\ \A w \in Workers(s) : workers[s][w] = IdleWorker
                 /\ semaphore[s] = concurrency
                 /\ queue[s].items = << >>
         /\ \A w \in DOMAIN workers'[s] :
              workers'[s][w].cancel
                  => /\ workers'[s][w].pc = "get"
                     /\ workers'[s][w].task = NoTask
                     /\ ~workers'[s][w].permit]_vars

\* two workers that fetched pages are cancelled, none has ended yet
C20_Witness ==
    \E s \in Sites :
        /\ coordPc[s] = "Draining"
        /\ concurrency >= 2
        /\ \A w \in Workers(s) : workers[s][w].cancel
        /\ UrlA \in files[s]

====
